---------------------------- MODULE Spec2Model ----------------------------
(***************************************************************************)
(* Model of the document preview modal (src/index.tsx) and its helpers.   *)
(*                                                                         *)
(* JavaScript strings are sequences of one-character strings, so that      *)
(* startsWith, includes, template-literal concatenation and === are        *)
(* computed the way the code computes them.  The React component is a      *)
(* state machine: one action per commit (render, effect cleanups, effects) *)
(* and one per event handler.  State updates requested by an effect or a   *)
(* handler are queued and become the component state at the next commit.   *)
(***************************************************************************)
EXTENDS Integers, Sequences, FiniteSets, TLC

(***************************************************************************)
(* String literals of the source, and the sample inputs.                   *)
(***************************************************************************)
\* "data:"
DATA_PREFIX == <<"d", "a", "t", "a", ":">>
\* "blob:"
BLOB_PREFIX == <<"b", "l", "o", "b", ":">>
\* ";base64,"
BASE64_MARK == <<";", "b", "a", "s", "e", "6", "4", ",">>
\* "image/"
IMAGE_PREFIX == <<"i", "m", "a", "g", "e", "/">>
\* "application/pdf"
APPLICATION_PDF == <<"a", "p", "p", "l", "i", "c", "a", "t", "i", "o", "n",
    "/", "p", "d", "f">>
\* "document"
SUB_DOCUMENT == <<"d", "o", "c", "u", "m", "e", "n", "t">>
\* "word"
SUB_WORD == <<"w", "o", "r", "d">>
\* "text"
SUB_TEXT == <<"t", "e", "x", "t">>
\* "spreadsheet"
SUB_SPREADSHEET == <<"s", "p", "r", "e", "a", "d", "s", "h", "e", "e", "t">>
\* "presentation"
SUB_PRESENTATION == <<"p", "r", "e", "s", "e", "n", "t", "a", "t", "i", "o",
    "n">>
\* "application/vnd.openxmlformats-officedocument.wordprocessingml.document"
OOXML_WORD == <<"a", "p", "p", "l", "i", "c", "a", "t", "i", "o", "n", "/",
    "v", "n", "d", ".", "o", "p", "e", "n", "x", "m", "l", "f", "o", "r",
    "m", "a", "t", "s", "-", "o", "f", "f", "i", "c", "e", "d", "o", "c",
    "u", "m", "e", "n", "t", ".", "w", "o", "r", "d", "p", "r", "o", "c",
    "e", "s", "s", "i", "n", "g", "m", "l", ".", "d", "o", "c", "u", "m",
    "e", "n", "t">>
\* "application/vnd.openxmlformats-officedocument.spreadsheetml.sheet"
OOXML_SHEET == <<"a", "p", "p", "l", "i", "c", "a", "t", "i", "o", "n", "/",
    "v", "n", "d", ".", "o", "p", "e", "n", "x", "m", "l", "f", "o", "r",
    "m", "a", "t", "s", "-", "o", "f", "f", "i", "c", "e", "d", "o", "c",
    "u", "m", "e", "n", "t", ".", "s", "p", "r", "e", "a", "d", "s", "h",
    "e", "e", "t", "m", "l", ".", "s", "h", "e", "e", "t">>
\* "application/vnd.openxmlformats-officedocument.presentationml.presentation"
OOXML_SLIDES == <<"a", "p", "p", "l", "i", "c", "a", "t", "i", "o", "n", "/",
    "v", "n", "d", ".", "o", "p", "e", "n", "x", "m", "l", "f", "o", "r",
    "m", "a", "t", "s", "-", "o", "f", "f", "i", "c", "e", "d", "o", "c",
    "u", "m", "e", "n", "t", ".", "p", "r", "e", "s", "e", "n", "t", "a",
    "t", "i", "o", "n", "m", "l", ".", "p", "r", "e", "s", "e", "n", "t",
    "a", "t", "i", "o", "n">>
\* "application/msword"
APPLICATION_MSWORD == <<"a", "p", "p", "l", "i", "c", "a", "t", "i", "o",
    "n", "/", "m", "s", "w", "o", "r", "d">>
\* "application/vnd.ms-excel"
APPLICATION_MS_EXCEL == <<"a", "p", "p", "l", "i", "c", "a", "t", "i", "o",
    "n", "/", "v", "n", "d", ".", "m", "s", "-", "e", "x", "c", "e", "l">>
\* "application/vnd.ms-powerpoint"
APPLICATION_MS_POWERPOINT == <<"a", "p", "p", "l", "i", "c", "a", "t", "i",
    "o", "n", "/", "v", "n", "d", ".", "m", "s", "-", "p", "o", "w", "e",
    "r", "p", "o", "i", "n", "t">>
\* "image/jpeg"
IMAGE_JPEG == <<"i", "m", "a", "g", "e", "/", "j", "p", "e", "g">>
\* "application/octet-stream"
APPLICATION_OCTET_STREAM == <<"a", "p", "p", "l", "i", "c", "a", "t", "i",
    "o", "n", "/", "o", "c", "t", "e", "t", "-", "s", "t", "r", "e", "a",
    "m">>
\* "image/png"
IMAGE_PNG == <<"i", "m", "a", "g", "e", "/", "p", "n", "g">>
\* "image/text"
IMAGE_TEXT == <<"i", "m", "a", "g", "e", "/", "t", "e", "x", "t">>
\* "text/plain"
TEXT_PLAIN == <<"t", "e", "x", "t", "/", "p", "l", "a", "i", "n">>
\* "application/zip"
APPLICATION_ZIP == <<"a", "p", "p", "l", "i", "c", "a", "t", "i", "o", "n",
    "/", "z", "i", "p">>
\* "x-image/png"
X_IMAGE_PNG == <<"x", "-", "i", "m", "a", "g", "e", "/", "p", "n", "g">>
\* "application/pdfa"
APPLICATION_PDFA == <<"a", "p", "p", "l", "i", "c", "a", "t", "i", "o", "n",
    "/", "p", "d", "f", "a">>
\* "Zm9v"
TEXT_ZM9V == <<"Z", "m", "9", "v">>
\* "data:text/plain,foo"
TEXT_DATA_URL == <<"d", "a", "t", "a", ":", "t", "e", "x", "t", "/", "p",
    "l", "a", "i", "n", ",", "f", "o", "o">>
\* "data:image/png;base64,Zm9v"
DATA_IMAGE_PNG_ZM9V == <<"d", "a", "t", "a", ":", "i", "m", "a", "g", "e",
    "/", "p", "n", "g", ";", "b", "a", "s", "e", "6", "4", ",", "Z", "m",
    "9", "v">>

\* The empty string "".
EMPTY == <<>>

(***************************************************************************)
(* String.prototype.startsWith / includes.                                 *)
(***************************************************************************)
startsWith(s, p) ==
    /\ Len(p) <= Len(s)
    /\ SubSeq(s, 1, Len(p)) = p

includes(s, sub) ==
    \E i \in 0..(Len(s) - Len(sub)) : SubSeq(s, i + 1, i + Len(sub)) = sub

(***************************************************************************)
(* JavaScript values that can arrive as props.  t is the runtime type;     *)
(* s the characters of a string (or the type of a Blob); id the identity   *)
(* of a binary content (or the value of a number); dt the runtime type of  *)
(* the data property of a plain object ("absent" when it has none), whose  *)
(* characters, content or value are again in s and id.                     *)
(***************************************************************************)
Undefined == [t |-> "undefined", s |-> EMPTY, id |-> 0, dt |-> "none"]
Str(chars) == [t |-> "string", s |-> chars, id |-> 0, dt |-> "none"]
Num(n) == [t |-> "number", s |-> EMPTY, id |-> n, dt |-> "none"]
BlobOf(content, type) == [t |-> "Blob", s |-> type, id |-> content, dt |-> "none"]
ArrayBufferOf(content) == [t |-> "ArrayBuffer", s |-> EMPTY, id |-> content, dt |-> "none"]
Obj(dataType, chars, content) == [t |-> "object", s |-> chars, id |-> content, dt |-> dataType]

\* ToBoolean: what `if (x)` and `x && ...` test.
Truthy(v) ==
    CASE v.t = "undefined" -> FALSE
      [] v.t = "string" -> Len(v.s) > 0
      [] v.t = "number" -> v.id # 0
      [] v.t = "symbol" -> TRUE
      [] OTHER -> TRUE

\* mediaFile.data of a plain object.
DataOf(v) ==
    CASE v.dt = "string" -> Str(v.s)
      [] v.dt = "number" -> Num(v.id)
      [] v.dt = "Blob" -> BlobOf(v.id, v.s)
      [] v.dt = "ArrayBuffer" -> ArrayBufferOf(v.id)
      [] v.dt = "symbol" -> [t |-> "symbol", s |-> EMPTY, id |-> 0, dt |-> "none"]
      [] OTHER -> Undefined

Kinds == {"image", "pdf", "document", "unknown"}

(***************************************************************************)
(* detectFileType                                                          *)
(***************************************************************************)
detectFileType_IncludesFirst(mimeType) ==
    IF Truthy(mimeType)
    THEN IF \/ includes(mimeType.s, SUB_DOCUMENT)
            \/ includes(mimeType.s, SUB_WORD)
            \/ includes(mimeType.s, SUB_TEXT)
            \/ includes(mimeType.s, SUB_SPREADSHEET)
            \/ includes(mimeType.s, SUB_PRESENTATION)
         THEN "document"
         ELSE IF startsWith(mimeType.s, IMAGE_PREFIX) THEN "image"
         ELSE IF includes(mimeType.s, APPLICATION_PDF) THEN "pdf"
         ELSE IF mimeType.s \in {APPLICATION_MSWORD, APPLICATION_MS_EXCEL}
         THEN "document"
         ELSE "unknown"
    ELSE "unknown"

detectFileType(mimeType) ==
    IF Truthy(mimeType)
    THEN IF startsWith(mimeType.s, IMAGE_PREFIX) THEN "image"
         ELSE IF mimeType.s = APPLICATION_PDF THEN "pdf"
         ELSE IF \/ includes(mimeType.s, SUB_DOCUMENT)
                 \/ includes(mimeType.s, SUB_WORD)
                 \/ includes(mimeType.s, SUB_TEXT)
                 \/ includes(mimeType.s, SUB_SPREADSHEET)
                 \/ includes(mimeType.s, SUB_PRESENTATION)
                 \/ mimeType.s = OOXML_WORD
                 \/ mimeType.s = OOXML_SHEET
                 \/ mimeType.s = OOXML_SLIDES
                 \/ mimeType.s = APPLICATION_MSWORD
                 \/ mimeType.s = APPLICATION_MS_EXCEL
                 \/ mimeType.s = APPLICATION_MS_POWERPOINT
         THEN "document"
         ELSE "unknown"
    ELSE "unknown"

(***************************************************************************)
(* getMimeType                                                             *)
(***************************************************************************)
getMimeType_KindFirst(detectedType, providedMimeType) ==
    CASE detectedType = "pdf" -> APPLICATION_PDF
      [] detectedType = "image" -> IMAGE_JPEG
      [] OTHER -> IF Truthy(providedMimeType) THEN providedMimeType.s
                  ELSE APPLICATION_OCTET_STREAM

getMimeType(detectedType, providedMimeType) ==
    IF Truthy(providedMimeType) THEN providedMimeType.s
    ELSE CASE detectedType = "pdf" -> APPLICATION_PDF
           [] detectedType = "image" -> IMAGE_JPEG
           [] detectedType = "document" -> APPLICATION_OCTET_STREAM
           [] OTHER -> APPLICATION_OCTET_STREAM

(***************************************************************************)
(* Bounds and input sets.                                                  *)
(***************************************************************************)
\* Most URL.createObjectURL calls one behaviour makes.
MaxUrls == 3

\* Load attempts of one document frame.
MaxLoads == 3

\* Drags move the image at most MaxOffset away from the origin on each axis.
MaxOffset == 1

Digits == <<"1", "2", "3", "4", "5", "6", "7", "8", "9">>

\* MIME hints given to the pure functions.
AllHints ==
    {Undefined, Str(EMPTY), Str(IMAGE_PNG), Str(IMAGE_JPEG), Str(IMAGE_TEXT),
     Str(X_IMAGE_PNG), Str(APPLICATION_PDF), Str(APPLICATION_PDFA),
     Str(TEXT_PLAIN), Str(APPLICATION_ZIP), Str(APPLICATION_OCTET_STREAM),
     Str(APPLICATION_MSWORD), Str(APPLICATION_MS_EXCEL),
     Str(APPLICATION_MS_POWERPOINT), Str(OOXML_WORD), Str(OOXML_SHEET),
     Str(OOXML_SLIDES)}

\* mimeType and mediaFile props of the modal's life cycle (Spec).
MimeHints == {Undefined, Str(IMAGE_PNG), Str(APPLICATION_PDF), Str(TEXT_PLAIN)}

Payloads ==
    {Undefined, Str(TEXT_ZM9V), BlobOf(1, IMAGE_PNG), ArrayBufferOf(2), Num(42)}

\* mediaFile props the modal is first rendered with in NormalizeSpec.
AllPayloads ==
    {Undefined, Str(EMPTY), Str(TEXT_ZM9V), Str(TEXT_DATA_URL),
     BlobOf(1, IMAGE_PNG), ArrayBufferOf(2), Num(42),
     Obj("absent", EMPTY, 0), Obj("string", TEXT_ZM9V, 0),
     Obj("string", EMPTY, 0), Obj("string", TEXT_DATA_URL, 0),
     Obj("ArrayBuffer", EMPTY, 2), Obj("Blob", IMAGE_PNG, 1),
     Obj("number", EMPTY, 42), Obj("symbol", EMPTY, 0)}

VARIABLES
    phase,        \* "created", "mounted" or "unmounted"
    isOpen,       \* props
    mediaFile,
    mimeType,
    documentUrl,  \* useState values of the last render
    isLoading,
    error,
    fileType,
    queued,       \* the useState values the next render will see
    cleanupUrl,   \* documentUrl as captured by the registered cleanup closure
    urlCount,     \* number of object URLs created so far
    revoked,      \* object URLs passed to URL.revokeObjectURL
    run,          \* locals of the latest run of the normalizing effect
    lastEvent,    \* the step taken last
    iframe,       \* the mounted document frame: its src and its load attempts
    call,         \* a call of a pure helper: arguments and result
    scale,        \* ImageZoomViewer: zoom scale in hundredths (100 is 1)
    position,     \* ImageZoomViewer: offset of the image
    isDragging,
    dragStart,    \* pointer position at which the drag began
    lastPosition, \* offset at which the drag began
    e             \* the event handled last by the viewer

vars == <<phase, isOpen, mediaFile, mimeType, documentUrl, isLoading, error,
          fileType, queued, cleanupUrl, urlCount, revoked, run, lastEvent, iframe,
          call, scale, position, isDragging, dragStart, lastPosition, e>>

modalVars == <<phase, isOpen, mediaFile, mimeType, documentUrl, isLoading, error,
               fileType, queued, cleanupUrl, urlCount, revoked, run, lastEvent,
               iframe>>

zoomVars == <<scale, position, isDragging, dragStart, lastPosition, e>>

(***************************************************************************)
(* ImageZoomViewer: constants (lines 22-24, in hundredths) and the state   *)
(* after construction (lines 14-18).                                       *)
(***************************************************************************)
minScale == 50
maxScale == 500
scaleStep == 25
unitScale == 100

Origin == [x |-> 0, y |-> 0]

NoEvent == [type |-> "none", clientX |-> 0, clientY |-> 0, touches |-> 0, deltaY |-> 0]

ZoomInit ==
    /\ scale = unitScale
    /\ position = Origin
    /\ isDragging = FALSE
    /\ dragStart = Origin
    /\ lastPosition = Origin
    /\ e = NoEvent

(***************************************************************************)
(* The document frame (lines 186-205).                                     *)
(***************************************************************************)
\* encodeURIComponent: every ASCII character other than letters, digits and
\* - _ . ! ~ * ' ( ) is replaced by its percent code (the backquote, which
\* no string of this module holds, is left out of the table).
PercentCode ==
    [c \in {" ", "\"", "#", "$", "%", "&", "+", ",", "/", ":", ";", "<", "=",
            ">", "?", "@", "[", "]", "^", "{", "|", "}"} |->
       CASE c = " " -> <<"%", "2", "0">> [] c = "\"" -> <<"%", "2", "2">>
         [] c = "#" -> <<"%", "2", "3">> [] c = "$" -> <<"%", "2", "4">>
         [] c = "%" -> <<"%", "2", "5">> [] c = "&" -> <<"%", "2", "6">>
         [] c = "+" -> <<"%", "2", "B">> [] c = "," -> <<"%", "2", "C">>
         [] c = "/" -> <<"%", "2", "F">> [] c = ":" -> <<"%", "3", "A">>
         [] c = ";" -> <<"%", "3", "B">> [] c = "<" -> <<"%", "3", "C">>
         [] c = "=" -> <<"%", "3", "D">> [] c = ">" -> <<"%", "3", "E">>
         [] c = "?" -> <<"%", "3", "F">> [] c = "@" -> <<"%", "4", "0">>
         [] c = "[" -> <<"%", "5", "B">> [] c = "]" -> <<"%", "5", "D">>
         [] c = "^" -> <<"%", "5", "E">> [] c = "{" -> <<"%", "7", "B">>
         [] c = "|" -> <<"%", "7", "C">> [] c = "}" -> <<"%", "7", "D">>]

RECURSIVE encodeURIComponent(_)
encodeURIComponent(s) ==
    IF Len(s) = 0 THEN <<>>
    ELSE IF Len(s) = 1
    THEN (IF s[1] \in DOMAIN PercentCode THEN PercentCode[s[1]] ELSE s)
    ELSE LET half == Len(s) \div 2
         IN  encodeURIComponent(SubSeq(s, 1, half))
                \o encodeURIComponent(SubSeq(s, half + 1, Len(s)))

\* The two viewer URLs built from the encoded locator (lines 191 and 199).
GOOGLE_VIEWER ==
    <<"h", "t", "t", "p", "s", ":", "/", "/", "d", "o", "c", "s", ".", "g",
      "o", "o", "g", "l", "e", ".", "c", "o", "m", "/", "v", "i", "e", "w",
      "e", "r", "?", "u", "r", "l", "=">>

EMBEDDED_TRUE ==
    <<"&", "e", "m", "b", "e", "d", "d", "e", "d", "=", "t", "r", "u", "e">>

OFFICE_VIEWER ==
    <<"h", "t", "t", "p", "s", ":", "/", "/", "v", "i", "e", "w", ".", "o",
      "f", "f", "i", "c", "e", "a", "p", "p", "s", ".", "l", "i", "v", "e",
      ".", "c", "o", "m", "/", "o", "p", "/", "e", "m", "b", "e", "d", ".",
      "a", "s", "p", "x", "?", "s", "r", "c", "=">>

googleViewerUrl(encodedUrl) == GOOGLE_VIEWER \o encodedUrl \o EMBEDDED_TRUE

officeViewerUrl(encodedUrl) == OFFICE_VIEWER \o encodedUrl

NoFrame == [src |-> EMPTY, loads |-> 0]

\* The render of the dialog body as far as the document frame goes: the
\* frame exists when the dialog is open and the preview of kind document is
\* rendered.  React assigns src, which starts a load, when the frame is
\* created or its src prop changed; otherwise the element is left as it is.
rendersFrame(open, st) ==
    /\ open
    /\ ~st.isLoading
    /\ st.error = ""
    /\ st.documentUrl # EMPTY
    /\ st.fileType = "document"

renderFrame(old, open, st, renderedUrl) ==
    IF ~rendersFrame(open, st) THEN NoFrame
    ELSE IF old # NoFrame /\ st.documentUrl = renderedUrl THEN old
    ELSE [src |-> googleViewerUrl(encodeURIComponent(st.documentUrl)), loads |-> 1]

\* The frame's onError handler (lines 195-201): the frame found by its title
\* is assigned the second viewer's URL, and an assignment to src loads it.
onError(old, renderedUrl) ==
    [src |-> officeViewerUrl(encodeURIComponent(renderedUrl)),
     loads |-> old.loads + 1]

\* The object URLs this instance created, and those not yet revoked.
AllocatedUrls == {BLOB_PREFIX \o <<Digits[i]>> : i \in 1..urlCount}
LiveUrls == AllocatedUrls \ revoked

NoBlob == [made |-> FALSE, content |-> 0, type |-> EMPTY]

\* new Blob([content], {type}), or the Blob passed in, given to createObjectURL.
MadeBlob_Empty(content, type) == [made |-> TRUE, content |-> 0, type |-> type]

MadeBlob(content, type) == [made |-> TRUE, content |-> content, type |-> type]

NoRun ==
    [ran |-> FALSE, branch |-> "none", payload |-> Undefined, hint |-> Undefined,
     detectedType |-> "unknown", url |-> EMPTY, blob |-> NoBlob]

NoCall == [fn |-> "none", kind |-> "unknown", hint |-> Undefined,
           kindResult |-> "none", mimeResult |-> EMPTY]

(***************************************************************************)
(* URL.createObjectURL: a URL no earlier call returned.                    *)
(***************************************************************************)
createObjectURL_Reused(count) == BLOB_PREFIX \o <<Digits[1]>>

createObjectURL(count) == BLOB_PREFIX \o <<Digits[count + 1]>>

\* `data:${detectedMimeType};base64,${text}`
dataUrl_NoMime(detectedMimeType, text) == DATA_PREFIX \o BASE64_MARK \o text

dataUrl(detectedMimeType, text) ==
    DATA_PREFIX \o detectedMimeType \o BASE64_MARK \o text

(***************************************************************************)
(* The first effect's body (normalization).  st holds the useState values  *)
(* of the render the effect belongs to; the result holds the values after  *)
(* the effect's setState calls (batched: the last call per value wins, so  *)
(* setIsLoading(true) ... setIsLoading(false) leaves isLoading false).     *)
(***************************************************************************)
\* The finally block (lines 133-135): setIsLoading(false).
finished_StillLoading(st) == st

finished(st) == [st EXCEPT !.isLoading = FALSE]

EffectResult(st, branch, file, mime, kind, url, blob) ==
    [st |-> finished(st),
     run |-> [ran |-> TRUE, branch |-> branch, payload |-> file, hint |-> mime,
              detectedType |-> kind, url |-> url, blob |-> blob]]

Located(base, branch, file, mime, kind, url, blob) ==
    EffectResult([base EXCEPT !.documentUrl = url], branch, file, mime, kind, url, blob)

Failed_NoMessage(base, branch, file, mime, kind, message) ==
    EffectResult(base, branch, file, mime, kind, EMPTY, NoBlob)

Failed(base, branch, file, mime, kind, message) ==
    EffectResult([base EXCEPT !.error = message], branch, file, mime, kind, EMPTY, NoBlob)

\* setIsLoading(true); setError(""); setFileType(detectedType) (lines 84-89).
started_KeepsKind(st, detectedType) == [st EXCEPT !.isLoading = TRUE, !.error = ""]

started(st, detectedType) ==
    [st EXCEPT !.isLoading = TRUE, !.error = "", !.fileType = detectedType]

normalizeEffect(st, open, file, mime, count) ==
    IF Truthy(file) /\ open
    THEN LET detectedType == detectFileType(mime)
             detectedMimeType == getMimeType(detectedType, mime)
             base == started(st, detectedType)
             url == createObjectURL(count)
         IN  IF file.t = "string"
             THEN IF startsWith(file.s, DATA_PREFIX)
                  THEN Located(base, "dataUrl", file, mime, detectedType, file.s, NoBlob)
                  ELSE Located(base, "base64", file, mime, detectedType,
                               dataUrl(detectedMimeType, file.s), NoBlob)
             ELSE IF file.t = "Blob"
             THEN Located(base, "Blob", file, mime, detectedType, url,
                          MadeBlob(file.id, file.s))
             ELSE IF file.t = "ArrayBuffer"
             THEN Located(base, "ArrayBuffer", file, mime, detectedType, url,
                          MadeBlob(file.id, detectedMimeType))
             ELSE IF file.t = "object" /\ Truthy(DataOf(file))
             THEN IF DataOf(file).t = "string"
                  THEN Located(base, "wrappedText", file, mime, detectedType,
                               dataUrl(detectedMimeType, file.s), NoBlob)
                  ELSE IF DataOf(file).t = "symbol"
                  \* new Blob([symbol]) throws a TypeError: the catch block
                  THEN Failed(base, "thrown", file, mime, detectedType,
                              "Failed to load document")
                  ELSE Located(base, "wrappedBinary", file, mime, detectedType, url,
                               MadeBlob(file.id, detectedMimeType))
             ELSE Failed(base, "unsupported", file, mime, detectedType,
                         "Unsupported media file format")
    ELSE [st |-> st, run |-> NoRun]

(***************************************************************************)
(* The first effect's cleanup: it revokes the documentUrl its closure      *)
(* captured, i.e. the value of the render that registered it.              *)
(***************************************************************************)
cleanup(capturedUrl, rev) ==
    IF capturedUrl # EMPTY /\ startsWith(capturedUrl, BLOB_PREFIX)
    THEN rev \cup {capturedUrl}
    ELSE rev

(***************************************************************************)
(* The second effect: clear the URL when the modal is closed.              *)
(***************************************************************************)
closeEffect_KeepsUrl(st, renderedUrl, open, rev) == [st |-> st, revoked |-> rev]

closeEffect(st, renderedUrl, open, rev) ==
    IF ~open /\ renderedUrl # EMPTY /\ startsWith(renderedUrl, BLOB_PREFIX)
    THEN [st |-> [st EXCEPT !.documentUrl = EMPTY], revoked |-> rev \cup {renderedUrl}]
    ELSE [st |-> st, revoked |-> rev]

(***************************************************************************)
(* One commit: render with the queued state and the given props, then run  *)
(* the cleanups and effects whose dependencies changed, in source order.   *)
(***************************************************************************)
CommitWith(open, file, mime, first, fresh, event) ==
    LET st == queued
        deps1 == first \/ fresh \/ <<file, open, mime>> # <<mediaFile, isOpen, mimeType>>
        deps2 == first \/ open # isOpen \/ st.documentUrl # documentUrl
        rev1 == IF deps1 /\ ~first THEN cleanup(cleanupUrl, revoked) ELSE revoked
    IN  \E e1 \in {IF deps1 THEN normalizeEffect(st, open, file, mime, urlCount)
                   ELSE [st |-> st, run |-> NoRun]} :
        \E e2 \in {IF deps2 THEN closeEffect(e1.st, st.documentUrl, open, rev1)
                   ELSE [st |-> e1.st, revoked |-> rev1]} :
        \E made \in {IF e1.run.blob.made THEN 1 ELSE 0} :
            /\ urlCount + made <= MaxUrls
            /\ phase' = "mounted"
            /\ isOpen' = open
            /\ mediaFile' = file
            /\ mimeType' = mime
            /\ documentUrl' = st.documentUrl
            /\ isLoading' = st.isLoading
            /\ error' = st.error
            /\ fileType' = st.fileType
            /\ queued' = e2.st
            /\ cleanupUrl' = IF deps1 THEN st.documentUrl ELSE cleanupUrl
            /\ urlCount' = urlCount + made
            /\ revoked' = e2.revoked
            /\ run' = e1.run
            /\ lastEvent' = event
            /\ iframe' = renderFrame(iframe, open, st, documentUrl)
            /\ UNCHANGED <<call, zoomVars>>

Settled == queued = [documentUrl |-> documentUrl, isLoading |-> isLoading,
                     error |-> error, fileType |-> fileType]

\* What the dialog shows (lines 242-274): the preview is rendered when the
\* modal is open, not loading, without error, and holds a locator.
RendersPreview ==
    /\ phase = "mounted"
    /\ isOpen
    /\ ~isLoading
    /\ error = ""
    /\ documentUrl # EMPTY

\* The dialog is open (line 236) and what its body shows (lines 242-274 and
\* 157): the spinner, the error message, nothing, or the preview by kind.
Shown == phase = "mounted" /\ isOpen

View ==
    IF isLoading THEN "loading"
    ELSE IF error # "" THEN "error"
    ELSE IF documentUrl = EMPTY THEN "none"
    ELSE fileType

\* The error view's Download File button (line 256).
ErrorViewOffersDownload == documentUrl # EMPTY

Init ==
    /\ phase = "created"
    /\ isOpen = FALSE
    /\ mediaFile = Undefined
    /\ mimeType = Undefined
    /\ documentUrl = EMPTY
    /\ isLoading = FALSE
    /\ error = ""
    /\ fileType = "unknown"
    /\ queued = [documentUrl |-> EMPTY, isLoading |-> FALSE, error |-> "",
                 fileType |-> "unknown"]
    /\ cleanupUrl = EMPTY
    /\ urlCount = 0
    /\ revoked = {}
    /\ run = NoRun
    /\ lastEvent = "none"
    /\ iframe = NoFrame
    /\ call = NoCall
    /\ ZoomInit

Commit(open, file, mime, first, event) ==
    CommitWith(open, file, mime, first, FALSE, event)

\* First render of the component with the props the parent passes.
Mount ==
    /\ phase = "created"
    /\ \E open \in BOOLEAN, file \in Payloads, mime \in MimeHints :
          Commit(open, file, mime, TRUE, "mount")

\* The parent renders the component with different props.
SetProps ==
    /\ phase = "mounted"
    /\ \E open \in BOOLEAN, file \in Payloads, mime \in MimeHints :
          /\ <<open, file, mime>> # <<isOpen, mediaFile, mimeType>>
          /\ Commit(open, file, mime, FALSE,
                    IF open = isOpen THEN "props"
                    ELSE IF open THEN "open" ELSE "close")

\* The render React schedules for queued state updates.
Rerender ==
    /\ phase = "mounted"
    /\ ~Settled
    /\ Commit(isOpen, mediaFile, mimeType, FALSE, "rerender")

\* The parent renders the component with a payload that is a new object of
\* the same content (a refetched buffer, a wrapper built anew): the
\* dependency array compares objects by identity, so the first effect's
\* cleanup and body run again with equal inputs.
IsReference(file) == file.t \in {"Blob", "ArrayBuffer", "object"}

Reinvoke ==
    /\ phase = "mounted"
    /\ IsReference(mediaFile)
    /\ CommitWith(isOpen, mediaFile, mimeType, FALSE, TRUE, "reinvoke")

\* onError of the image element or of the PDF frame (lines 167 and 181).
LoadError ==
    /\ RendersPreview
    /\ fileType \in {"image", "pdf"}
    /\ queued' = [queued EXCEPT !.error =
                     IF fileType = "image" THEN "Failed to load image"
                     ELSE "Failed to load PDF"]
    /\ lastEvent' = "loadError"
    /\ UNCHANGED <<phase, isOpen, mediaFile, mimeType, documentUrl, isLoading,
                   error, fileType, cleanupUrl, urlCount, revoked, run, iframe,
                   call, zoomVars>>

\* A load failure of the document frame.
FrameError ==
    /\ phase = "mounted"
    /\ iframe # NoFrame
    /\ iframe.loads < MaxLoads
    /\ iframe' = onError(iframe, documentUrl)
    /\ lastEvent' = "frameError"
    /\ UNCHANGED <<phase, isOpen, mediaFile, mimeType, documentUrl, isLoading,
                   error, fileType, queued, cleanupUrl, urlCount, revoked, run,
                   call, zoomVars>>

\* The component is removed: the registered cleanup runs.
Unmount ==
    /\ phase = "mounted"
    /\ phase' = "unmounted"
    /\ revoked' = cleanup(cleanupUrl, revoked)
    /\ lastEvent' = "unmount"
    /\ iframe' = NoFrame
    /\ UNCHANGED <<isOpen, mediaFile, mimeType, documentUrl, isLoading, error,
                   fileType, queued, cleanupUrl, urlCount, run, call, zoomVars>>

Next ==
    Mount \/ SetProps \/ Reinvoke \/ Rerender \/ LoadError \/ FrameError \/ Unmount

Spec == Init /\ [][Next]_vars

(***************************************************************************)
(* The modal first rendered with any sample payload and hint, then opened  *)
(* and closed by the parent.                                               *)
(***************************************************************************)
FirstRender ==
    /\ phase = "created"
    /\ \E open \in BOOLEAN, file \in AllPayloads, mime \in AllHints :
          Commit(open, file, mime, TRUE, "mount")

Toggle ==
    /\ phase = "mounted"
    /\ Commit(~isOpen, mediaFile, mimeType, FALSE,
              IF isOpen THEN "close" ELSE "open")

NormalizeNext ==
    \/ FirstRender \/ Toggle \/ Reinvoke \/ Rerender
    \/ LoadError \/ FrameError \/ Unmount

NormalizeSpec == Init /\ [][NormalizeNext]_vars

(***************************************************************************)
(* The pure helpers applied to every sample input.                         *)
(***************************************************************************)
PureInit ==
    /\ phase = "created"
    /\ isOpen = FALSE
    /\ mediaFile = Undefined
    /\ mimeType = Undefined
    /\ documentUrl = EMPTY
    /\ isLoading = FALSE
    /\ error = ""
    /\ fileType = "unknown"
    /\ queued = [documentUrl |-> EMPTY, isLoading |-> FALSE, error |-> "",
                 fileType |-> "unknown"]
    /\ cleanupUrl = EMPTY
    /\ urlCount = 0
    /\ revoked = {}
    /\ run = NoRun
    /\ lastEvent = "none"
    /\ iframe = NoFrame
    /\ \E kind \in Kinds, hint \in AllHints :
          call = [NoCall EXCEPT !.kind = kind, !.hint = hint]
    /\ ZoomInit

CallDetectFileType ==
    /\ call.fn = "none"
    /\ call' = [call EXCEPT !.fn = "detectFileType",
                            !.kindResult = detectFileType(call.hint)]
    /\ UNCHANGED <<modalVars, zoomVars>>

CallGetMimeType ==
    /\ call.fn = "none"
    /\ call' = [call EXCEPT !.fn = "getMimeType",
                            !.mimeResult = getMimeType(call.kind, call.hint)]
    /\ UNCHANGED <<modalVars, zoomVars>>

\* The normalizing effect applied to an ArrayBuffer with the hint: the type
\* of the Blob it makes.
CallNormalizeBuffer ==
    /\ call.fn = "none"
    /\ \E r \in {normalizeEffect(queued, TRUE, ArrayBufferOf(2), call.hint, urlCount)} :
          call' = [call EXCEPT !.fn = "normalizeEffect",
                               !.kind = r.run.detectedType,
                               !.mimeResult = r.run.blob.type]
    /\ UNCHANGED <<modalVars, zoomVars>>

PureNext == CallDetectFileType \/ CallGetMimeType \/ CallNormalizeBuffer

PureSpec == PureInit /\ [][PureNext]_vars

(***************************************************************************)
(* ImageZoomViewer.  Each action is one event: its handler, the render of  *)
(* the new state and, when scale changed, the effect of lines 27-31.       *)
(***************************************************************************)
Min(a, b) == IF a < b THEN a ELSE b
Max(a, b) == IF a > b THEN a ELSE b

\* Sample pointer coordinates.
Coords == {0, 1}
Offsets == (0 - MaxOffset)..MaxOffset

MouseEvent(type, x, y) ==
    [type |-> type, clientX |-> x, clientY |-> y, touches |-> 0, deltaY |-> 0]
TouchEvent(type, n, x, y) ==
    [type |-> type, clientX |-> x, clientY |-> y, touches |-> n, deltaY |-> 0]
WheelEvent(deltaY) ==
    [type |-> "wheel", clientX |-> 0, clientY |-> 0, touches |-> 0, deltaY |-> deltaY]

\* useEffect(() => { if (scale === 1) setPosition({x: 0, y: 0}) }, [scale])
scaleEffect_Never(newScale, pos) == pos

scaleEffect(newScale, pos) == IF newScale = unitScale THEN Origin ELSE pos

handleZoomIn_TwoSteps(prevScale) == Min(prevScale + 2 * scaleStep, maxScale)

handleZoomIn(prevScale) == Min(prevScale + scaleStep, maxScale)

handleZoomOut_TwoSteps(prevScale) == Max(prevScale - 2 * scaleStep, minScale)

handleZoomOut(prevScale) == Max(prevScale - scaleStep, minScale)

handleWheel_Unclamped(prevScale, deltaY) ==
    prevScale + (IF deltaY > 0 THEN 0 - scaleStep ELSE scaleStep)

handleWheel(prevScale, deltaY) ==
    LET delta == IF deltaY > 0 THEN 0 - scaleStep ELSE scaleStep
    IN  Max(minScale, Min(maxScale, prevScale + delta))

\* The test `scale > 1` of the pointer handlers (lines 48, 60, 88, 101).
canDrag_Always(s) == TRUE

canDrag(s) == s > unitScale

\* lastPosition + (client - dragStart) (lines 61-67 and 103-109).
dragTo_FromCurrent(last, start, x, y) ==
    [x |-> position.x + (x - start.x), y |-> position.y + (y - start.y)]

dragTo(last, start, x, y) ==
    [x |-> last.x + (x - start.x), y |-> last.y + (y - start.y)]

\* setIsDragging(false) (lines 74 and 117).
endDrag_Keeps(dragging) == dragging

endDrag(dragging) == FALSE

\* A scale update, its render and the [scale] effect.
SetScale(newScale, pos, event) ==
    /\ scale' = newScale
    /\ position' = IF newScale # scale THEN scaleEffect(newScale, pos) ELSE pos
    /\ e' = event
    /\ UNCHANGED <<isDragging, dragStart, lastPosition, modalVars, call>>

\* Clicks of the three buttons, each enabled as lines 127, 137, 147 say.
ZoomIn ==
    /\ scale < maxScale
    /\ SetScale(handleZoomIn(scale), position, MouseEvent("zoomIn", 0, 0))

ZoomOut ==
    /\ scale > minScale
    /\ SetScale(handleZoomOut(scale), position, MouseEvent("zoomOut", 0, 0))

Reset ==
    /\ ~(scale = unitScale /\ position = Origin)
    /\ SetScale(unitScale, Origin, MouseEvent("reset", 0, 0))

Wheel ==
    \E deltaY \in {-1, 0, 1} :
        SetScale(handleWheel(scale, deltaY), position, WheelEvent(deltaY))

\* handleMouseDown and handleTouchStart.
PointerDown(event, single) ==
    /\ e' = event
    /\ IF single /\ canDrag(scale)
       THEN /\ isDragging' = TRUE
            /\ dragStart' = [x |-> event.clientX, y |-> event.clientY]
            /\ lastPosition' = position
       ELSE UNCHANGED <<isDragging, dragStart, lastPosition>>
    /\ UNCHANGED <<scale, position, modalVars, call>>

\* handleMouseMove and handleTouchMove.
PointerMove(event, single) ==
    /\ e' = event
    /\ IF isDragging /\ single /\ canDrag(scale)
       THEN \E to \in {dragTo(lastPosition, dragStart, event.clientX, event.clientY)} :
               /\ to.x \in Offsets
               /\ to.y \in Offsets
               /\ position' = to
       ELSE UNCHANGED position
    /\ UNCHANGED <<scale, isDragging, dragStart, lastPosition, modalVars, call>>

\* handleMouseUp (also bound to onMouseLeave) and handleTouchEnd.
PointerUp(event) ==
    /\ e' = event
    /\ isDragging' = endDrag(isDragging)
    /\ UNCHANGED <<scale, position, dragStart, lastPosition, modalVars, call>>

MouseDown == \E x, y \in Coords : PointerDown(MouseEvent("mouseDown", x, y), TRUE)

MouseMove == \E x, y \in Coords : PointerMove(MouseEvent("mouseMove", x, y), TRUE)

MouseUp == PointerUp(MouseEvent("mouseUp", 0, 0))

MouseLeave == PointerUp(MouseEvent("mouseLeave", 0, 0))

\* Touch events carry one touch, or two (e.touches.length is then not 1).
TouchStart ==
    \/ \E x, y \in Coords : PointerDown(TouchEvent("touchStart", 1, x, y), TRUE)
    \/ PointerDown(TouchEvent("touchStart", 2, 0, 0), FALSE)

TouchMove ==
    \/ \E x, y \in Coords : PointerMove(TouchEvent("touchMove", 1, x, y), TRUE)
    \/ PointerMove(TouchEvent("touchMove", 2, 0, 0), FALSE)

TouchEnd == PointerUp(TouchEvent("touchEnd", 0, 0, 0))

ZoomNext ==
    \/ ZoomIn \/ ZoomOut \/ Reset \/ Wheel
    \/ MouseDown \/ MouseMove \/ MouseUp \/ MouseLeave
    \/ TouchStart \/ TouchMove \/ TouchEnd

ZoomSpec == Init /\ [][ZoomNext]_vars

(***************************************************************************)
(* Properties of the modal's life cycle (Spec).                            *)
(***************************************************************************)
IsBinary(v) == v.t \in {"Blob", "ArrayBuffer"}

\* C1: at most one object URL created by the instance is live at any time:
\* when a second binary payload is normalized, the URL of the first has
\* been revoked.
C1_AtMostOneLiveUrl == Cardinality(LiveUrls) <= 1

\* C2: when isOpen goes from true to false while a live object URL is held,
\* that URL is revoked and the held locator is cleared; once the close has
\* been processed completely no object URL of the instance is live.
C2_CloseReleasesEverything ==
    /\ [](phase = "mounted" /\ ~isOpen /\ Settled => LiveUrls = {})
    /\ [][(phase = "mounted" /\ isOpen /\ ~isOpen' /\ queued.documentUrl \in LiveUrls)
            => /\ queued.documentUrl \in revoked'
               /\ queued'.documentUrl = EMPTY
               /\ LiveUrls' = {}]_vars

\* A close processed after two object URLs were created, both now revoked.
C2_Witness ==
    /\ lastEvent = "close"
    /\ urlCount >= 2
    /\ Cardinality(revoked) >= 2
    /\ queued.documentUrl = EMPTY
    /\ LiveUrls = {}

\* C3: after the component is unmounted, also while open, no object URL it
\* created is live.
C3_UnmountReleasesEverything == phase = "unmounted" => LiveUrls = {}

\* C4: reopening the closed modal with the same binary payload makes the
\* held locator a newly created object URL, different from every URL
\* revoked before, and live.
C4_ReopenAllocatesFresh ==
    [][(phase = "mounted" /\ ~isOpen /\ isOpen' /\ mediaFile' = mediaFile
          /\ IsBinary(mediaFile))
        => /\ startsWith(queued'.documentUrl, BLOB_PREFIX)
           /\ queued'.documentUrl \notin AllocatedUrls
           /\ queued'.documentUrl \notin revoked
           /\ queued'.documentUrl \in LiveUrls']_vars

\* The modal reopened on a Blob after an earlier URL was revoked, the new
\* URL rendered and live.
C4_Witness ==
    /\ lastEvent = "rerender"
    /\ isOpen
    /\ mediaFile = BlobOf(1, IMAGE_PNG)
    /\ revoked # {}
    /\ cleanupUrl = EMPTY
    /\ documentUrl \in LiveUrls
    /\ documentUrl \notin revoked
    /\ urlCount >= 2

(***************************************************************************)
(* Properties of the pure helpers (PureSpec).                              *)
(***************************************************************************)
NonEmptyHint(h) == h.t = "string" /\ h.s # EMPTY

DocumentPattern(chars) ==
    \/ \E sub \in {SUB_DOCUMENT, SUB_WORD, SUB_TEXT, SUB_SPREADSHEET,
                   SUB_PRESENTATION} : includes(chars, sub)
    \/ chars \in {APPLICATION_MSWORD, APPLICATION_MS_EXCEL,
                  APPLICATION_MS_POWERPOINT, OOXML_WORD, OOXML_SHEET, OOXML_SLIDES}

\* The kinds the sample hints are documented to have.
ImageHints == {Str(IMAGE_PNG), Str(IMAGE_JPEG), Str(IMAGE_TEXT)}
PdfHints == {Str(APPLICATION_PDF)}
DocumentHints ==
    {Str(TEXT_PLAIN), Str(APPLICATION_MSWORD), Str(APPLICATION_MS_EXCEL),
     Str(APPLICATION_MS_POWERPOINT), Str(OOXML_WORD), Str(OOXML_SHEET),
     Str(OOXML_SLIDES)}
UnknownHints ==
    {Undefined, Str(EMPTY), Str(X_IMAGE_PNG), Str(APPLICATION_PDFA),
     Str(APPLICATION_ZIP), Str(APPLICATION_OCTET_STREAM)}

\* C5: detectFileType is total; an absent or empty hint gives unknown, a
\* hint starting with "image/" gives image whatever else it contains, the
\* hint "application/pdf" gives pdf, any other hint with a document
\* substring or equal to a listed office type gives document, and every
\* other hint gives unknown.
C5_DetectFileType ==
    call.fn = "detectFileType" =>
        LET h == call.hint
            k == call.kindResult
        IN  /\ k \in Kinds
            /\ ~NonEmptyHint(h) => k = "unknown"
            /\ (NonEmptyHint(h) /\ startsWith(h.s, IMAGE_PREFIX)) => k = "image"
            /\ (NonEmptyHint(h) /\ h.s = APPLICATION_PDF) => k = "pdf"
            /\ (NonEmptyHint(h) /\ ~startsWith(h.s, IMAGE_PREFIX)
                  /\ h.s # APPLICATION_PDF)
                 => k = IF DocumentPattern(h.s) THEN "document" ELSE "unknown"
            /\ h \in ImageHints => k = "image"
            /\ h \in PdfHints => k = "pdf"
            /\ h \in DocumentHints => k = "document"
            /\ h \in UnknownHints => k = "unknown"

\* "image/text" starts with "image/" and contains "text": it is an image.
C5_Witness ==
    /\ call.fn = "detectFileType"
    /\ call.hint = Str(IMAGE_TEXT)
    /\ call.kindResult = "image"

\* C6: getMimeType returns the hint whenever it is non-empty, for every
\* kind; without a hint it returns application/pdf for pdf, image/jpeg for
\* image and application/octet-stream for document and unknown.  An
\* ArrayBuffer normalized without a hint has kind unknown and is wrapped in
\* a Blob of type application/octet-stream.
C6_GetMimeType ==
    /\ call.fn = "getMimeType" =>
          IF NonEmptyHint(call.hint)
          THEN call.mimeResult = call.hint.s
          ELSE /\ call.kind = "pdf" => call.mimeResult = APPLICATION_PDF
               /\ call.kind = "image" => call.mimeResult = IMAGE_JPEG
               /\ call.kind \in {"document", "unknown"}
                    => call.mimeResult = APPLICATION_OCTET_STREAM
    /\ (call.fn = "normalizeEffect" /\ call.hint = Undefined) =>
          /\ call.kind = "unknown"
          /\ call.mimeResult = APPLICATION_OCTET_STREAM

\* The hint wins over a kind that has another default.
C6_Witness ==
    /\ call.fn = "getMimeType"
    /\ call.kind = "pdf"
    /\ call.hint = Str(IMAGE_PNG)
    /\ call.mimeResult = IMAGE_PNG

Accepted(v) ==
    \/ v.t \in {"string", "Blob", "ArrayBuffer"}
    \/ v.t = "object" /\ v.dt \in {"string", "Blob", "ArrayBuffer"}

\* C8: normalizing a payload that is neither text, Blob, ArrayBuffer nor a
\* wrapper of one of these enters the error state with the unsupported
\* format message and creates no object URL.
C8_UnsupportedPayloadFails ==
    (run.ran /\ ~Accepted(run.payload)) =>
        /\ queued.error = "Unsupported media file format"
        /\ ~queued.isLoading
        /\ ~run.blob.made

CommitEvents == {"mount", "open", "close", "props", "reinvoke"}

LoadFailures == {"Failed to load image", "Failed to load PDF"}

Occurrences(s, sub) ==
    Cardinality({i \in 1..(Len(s) - Len(sub) + 1) :
                    SubSeq(s, i, i + Len(sub) - 1) = sub})

\* C12 as stated: a document frame first loads the first viewer's URL, which
\* contains the percent-encoded locator exactly once; its first load failure
\* swaps the target to the second viewer's URL of the same encoded locator;
\* any further load failure starts no load and changes no target; an image
\* or PDF load failure retries nothing.
C12_FallbackOneShot ==
    /\ []((iframe # NoFrame /\ iframe.loads = 1) =>
            /\ iframe.src = googleViewerUrl(encodeURIComponent(documentUrl))
            /\ Occurrences(iframe.src, encodeURIComponent(documentUrl)) = 1)
    /\ [][(lastEvent' = "frameError" /\ iframe.loads = 1) =>
            /\ iframe'.src = officeViewerUrl(encodeURIComponent(documentUrl))
            /\ iframe'.loads = 2]_vars
    /\ [][(lastEvent' = "frameError" /\ iframe.loads > 1) => iframe' = iframe]_vars
    /\ [][lastEvent' = "loadError" =>
            /\ iframe' = iframe
            /\ queued'.documentUrl = queued.documentUrl
            /\ urlCount' = urlCount]_vars

(***************************************************************************)
(* Loading cycles and the displayed view (Spec).                           *)
(***************************************************************************)
FailureBranches == {"unsupported", "thrown"}

C14_Idempotent ==
    [][(/\ lastEvent = "rerender"
        /\ Settled
        /\ Shown
        /\ Truthy(mediaFile)
        /\ error \notin LoadFailures
        /\ lastEvent' = "reinvoke") =>
          /\ queued' = queued
          /\ Cardinality(LiveUrls') <= Cardinality(LiveUrls)]_vars

(***************************************************************************)
(* ImageZoomViewer (ZoomSpec).                                             *)
(***************************************************************************)
DownEvents == {"mouseDown", "touchStart"}
MoveEvents == {"mouseMove", "touchMove"}
UpEvents == {"mouseUp", "mouseLeave", "touchEnd"}

\* The event is a pointer event of one pointer: a mouse event, or a touch
\* event with exactly one touch.
SinglePointer(event) == event.type \in {"touchStart", "touchMove"} => event.touches = 1

ClientPoint(event) == [x |-> event.clientX, y |-> event.clientY]

\* C15: the zoom scale is always within [0.5, 5].
C15_ScaleInRange == minScale <= scale /\ scale <= maxScale

\* A wheel event has left the scale at the lower limit.
C15_Witness == e.type = "wheel" /\ e.deltaY > 0 /\ scale = minScale

C17_ZoomSteps ==
    /\ [][e'.type = "zoomIn" =>
            scale' = IF scale + 25 < 500 THEN scale + 25 ELSE 500]_vars
    /\ [][e'.type = "zoomOut" =>
            scale' = IF scale - 25 > 50 THEN scale - 25 ELSE 50]_vars
    /\ [][e'.type = "wheel" =>
            scale' = IF e'.deltaY > 0
                     THEN (IF scale - 25 > 50 THEN scale - 25 ELSE 50)
                     ELSE (IF scale + 25 < 500 THEN scale + 25 ELSE 500)]_vars
    /\ [](scale < 500 => handleZoomOut(handleZoomIn(scale)) = scale)

\* Zoom-in has just reached the upper limit.
C17_Witness == e.type = "zoomIn" /\ scale = maxScale

\* C18: a drag begins only on mouse-down or on touch-start with exactly one
\* touch while scale > 1, and records the anchor and the current offset; at
\* scale <= 1 a pointer-down changes nothing; at scale <= 1 no move changes
\* the offset, even with isDragging still set.
C18_DragStart ==
    /\ [][(~isDragging /\ isDragging') =>
            /\ e'.type \in DownEvents
            /\ SinglePointer(e')
            /\ scale > 100]_vars
    /\ [][(e'.type \in DownEvents /\ SinglePointer(e') /\ scale > 100) =>
            /\ isDragging'
            /\ dragStart' = ClientPoint(e')
            /\ lastPosition' = position
            /\ position' = position]_vars
    /\ [][(e'.type \in DownEvents /\ scale <= 100) =>
            UNCHANGED <<isDragging, dragStart, lastPosition, position, scale>>]_vars
    /\ [][(e'.type \in MoveEvents /\ scale <= 100) => position' = position]_vars

\* A move at scale <= 1 while isDragging is still set.
C18_Witness == e.type \in MoveEvents /\ isDragging /\ scale <= unitScale

\* C19: while dragging at scale > 1 every move of one pointer sets the offset
\* to the offset at drag start plus (pointer position - anchor), whatever
\* the moves before it; the scale, the anchor and the start offset stay.
C19_DragOffset ==
    [][(e'.type \in MoveEvents /\ SinglePointer(e') /\ isDragging /\ scale > 100) =>
         /\ position'.x = lastPosition.x + (e'.clientX - dragStart.x)
         /\ position'.y = lastPosition.y + (e'.clientY - dragStart.y)
         /\ UNCHANGED <<scale, dragStart, lastPosition, isDragging>>]_vars

\* A move of a drag that began away from the origin has moved the image.
C19_Witness ==
    /\ e.type \in MoveEvents
    /\ isDragging
    /\ scale > unitScale
    /\ lastPosition # Origin
    /\ position # lastPosition

\* C20: mouse-up, mouse-leave and touch-end end the drag in every state and
\* leave scale and offset as they were; while no drag is in progress no move
\* changes the offset, and only a pointer-down starts a drag again.
C20_DragEnd ==
    /\ [][e'.type \in UpEvents =>
            /\ ~isDragging'
            /\ UNCHANGED <<scale, position>>]_vars
    /\ [][(~isDragging /\ e'.type \in MoveEvents) => position' = position]_vars
    /\ [][(~isDragging /\ isDragging') => e'.type \in DownEvents]_vars

\* The pointer has left the container in the middle of a drag.
C20_Witness ==
    /\ e.type = "mouseLeave"
    /\ ~isDragging
    /\ scale > unitScale
    /\ position # Origin

(***************************************************************************)
(* The held locator, revocation and the current inputs (Spec).             *)
(***************************************************************************)
IsObjectUrl(url) == startsWith(url, BLOB_PREFIX)

\* C21: whenever the modal is open and the locator it holds and renders is
\* an object URL, that URL has not been revoked.
C21_HeldUrlIsLive ==
    (Shown /\ Settled /\ IsObjectUrl(documentUrl)) => documentUrl \in LiveUrls

\* The locator is one that normalizing the payload with the hint gives: the
\* data URL of a text payload, an object URL for a binary payload, and none
\* for an absent or unsupported payload.
DerivedFrom(url, file, mime) ==
    \E r \in {normalizeEffect(queued, TRUE, file, mime, 0).run} :
        /\ r.ran
        /\ r.branch \notin FailureBranches
        /\ IF r.blob.made THEN IsObjectUrl(url) ELSE url = r.url

\* C22: whenever the modal is open and not loading, the locator it holds is
\* empty or derived from the current payload and hint; so after a change to
\* an unsupported or absent payload the previous payload's locator is
\* neither rendered nor offered for download.
C22_LocatorOfCurrentInputs ==
    (Shown /\ Settled /\ ~isLoading) =>
        \/ documentUrl = EMPTY
        \/ DerivedFrom(documentUrl, mediaFile, mimeType)

(***************************************************************************)
(* ImageZoomViewer: the offset at and below scale 1 (ZoomSpec).            *)
(***************************************************************************)
ZoomEvents == {"zoomIn", "zoomOut", "reset", "wheel"}

=============================================================================
